---- MODULE Spec2Model ----
(***************************************************************************)
(* A model of the chat-export ingestion core: the transcript parser and    *)
(* media correlator (server/whatsapp-parser.ts) and the streaming archive  *)
(* pipeline (server/streaming-zip-processor.ts).                           *)
(*                                                                         *)
(* Text is modelled as sequences of tokens.  A token is the largest piece  *)
(* of a line that the regular expressions of the parser treat as a unit:   *)
(* a date-time stamp, a punctuation mark, a word or phrase, a file name.   *)
(* Tokens of one line are separated by single spaces.  Non-ASCII literals  *)
(* of the source are written as ASCII transliterations ("AR_...").         *)
(***************************************************************************)
EXTENDS Integers, Sequences, FiniteSets, TLC

(***************************************************************************)
(* Tokens                                                                  *)
(***************************************************************************)
\* a word, phrase or punctuation mark
W(s) == [k |-> "w", s |-> s, n |-> <<>>, x |-> ""]
\* a date-time stamp "a/b/y, h:mi mer"; x = "ar" when written in Arabic-Indic digits
TS(a, b, y, h, mi, mer) == [k |-> "ts", s |-> mer, n |-> <<a, b, y, h, mi>>, x |-> ""]
\* a vendor file name "PRE-yyyymmdd-WAwa.ext"
VF(pre, y, m, d, wa, ext) == [k |-> "file", s |-> pre, n |-> <<y, m, d, wa>>, x |-> ext]
\* a generic file name "stem.ext"
GF(stem, ext) == [k |-> "file", s |-> stem, n |-> <<>>, x |-> ext]

NullT == <<[k |-> "null", s |-> "", n |-> <<>>, x |-> ""]>>
Null == "null"
NL == W("\\n")
LRM == W("LRM")
COLON == W(":")
DASH == W("-")
LBR == W("[")
RBR == W("]")

Min(a, b) == IF a < b THEN a ELSE b
Abs(a) == IF a < 0 THEN 0 - a ELSE a

\* String.prototype.toLowerCase on the strings of the vocabulary
LowerStr(s) ==
  CASE s = "You" -> "you"
    [] s = "YOU" -> "you"
    [] s = "Vous" -> "vous"
    [] s = "Tu" -> "tu"
    [] s = "Du" -> "du"
    [] s = "Sie" -> "sie"
    [] s = "Ali" -> "ali"
    [] s = "Sara" -> "sara"
    [] s = "Omar" -> "omar"
    [] s = "IMG" -> "img"
    [] s = "VID" -> "vid"
    [] s = "AUD" -> "aud"
    [] s = "PTT" -> "ptt"
    [] s = "DOC" -> "doc"
    [] s = "JPG" -> "jpg"
    [] s = "Hello" -> "hello"
    [] s = "<Media omitted>" -> "<media omitted>"
    [] s = "Messages and calls are end-to-end encrypted" -> "messages and calls are end-to-end encrypted"
    [] s = "Les messages et les appels sont chiffres" -> "les messages et les appels sont chiffres"
    [] OTHER -> s

LowerTok(t) == [t EXCEPT !.s = LowerStr(@), !.x = LowerStr(@)]
Lower(text) == [i \in 1..Len(text) |-> LowerTok(text[i])]

(***************************************************************************)
(* Dates.  An instant is a number of seconds of local time since           *)
(* 2000-01-01 00:00:00; getTime() is 1000 times that.                      *)
(***************************************************************************)
IsLeap(y) == (y % 4 = 0 /\ y % 100 # 0) \/ y % 400 = 0
LeapsBefore(y) == ((y - 1) \div 4) - ((y - 1) \div 100) + ((y - 1) \div 400)
DaysBeforeYear(y) == 365 * (y - 2000) + LeapsBefore(y) - LeapsBefore(2000)
DaysInMonth(y, m0) ==
  IF m0 = 1 THEN (IF IsLeap(y) THEN 29 ELSE 28)
  ELSE IF m0 \in {3, 5, 8, 10} THEN 30 ELSE 31
RECURSIVE DaysBeforeMonth(_, _)
DaysBeforeMonth(y, m0) ==
  IF m0 = 0 THEN 0 ELSE DaysBeforeMonth(y, m0 - 1) + DaysInMonth(y, m0 - 1)
\* new Date(year, monthIndex, day, hours, minutes, seconds): out-of-range
\* fields carry over into the next larger field
NewDate(year, monthIndex, day, hours, minutes, seconds) ==
  LET y == year + (monthIndex \div 12)
      m0 == monthIndex % 12
  IN (DaysBeforeYear(y) + DaysBeforeMonth(y, m0) + (day - 1)) * 86400
       + hours * 3600 + minutes * 60 + seconds

(***************************************************************************)
(* Timestamp normalizer                                                    *)
(***************************************************************************)
\* a variant that adds 12 to every PM hour, 12 included
parseTimestampAlwaysAdds(ts) ==
  LET year == ts.n[3]
      yearNum == IF year < 100 THEN year + (IF year < 50 THEN 2000 ELSE 1900) ELSE year
      hourNum == IF ts.s \in {"PM", "AR_MIM"} THEN ts.n[4] + 12
                 ELSE IF ts.s \in {"AM", "AR_SAD"} /\ ts.n[4] = 12 THEN 0
                 ELSE ts.n[4]
  IN NewDate(yearNum, ts.n[1] - 1, ts.n[2], hourNum, ts.n[5], 0)

\* the destructuring of the match: the first number of the date is taken as
\* the month and the second as the day
parseTimestamp(ts) ==
  LET month == ts.n[1]
      day == ts.n[2]
      year == ts.n[3]
      hour == ts.n[4]
      minute == ts.n[5]
      meridiem == ts.s
      yearNum == IF year < 100 THEN year + (IF year < 50 THEN 2000 ELSE 1900) ELSE year
      hourNum == IF meridiem \in {"PM", "AR_MIM"} /\ hour < 12 THEN hour + 12
                 ELSE IF meridiem \in {"AM", "AR_SAD"} /\ hour = 12 THEN 0
                 ELSE hour
  IN NewDate(yearNum, month - 1, day, hourNum, minute, 0)

\* getDateKey: the local calendar day of an instant ("yyyy-mm-dd"), here
\* the index of that day
getDateKey(date) == date \div 86400

(***************************************************************************)
(* Line grammar                                                            *)
(***************************************************************************)
RECURSIVE Without(_, _)
Without(text, tok) ==
  IF text = <<>> THEN <<>>
  ELSE IF Head(text) = tok THEN Without(Tail(text), tok)
  ELSE <<Head(text)>> \o Without(Tail(text), tok)

\* strips the direction marks (and outer white space)
normalizeText(line) == Without(line, LRM)
\* Arabic-Indic digits become ASCII digits
normalizeArabicNumerals(line) ==
  [i \in 1..Len(line) |-> IF line[i].k = "ts" THEN [line[i] EXCEPT !.x = ""] ELSE line[i]]

\* !line.trim(): nothing but white space
IsBlank(line) == line = <<>>

\* encryptionNoticeRegex: the English notice only at the start of the line
\* (the ^ binds to the first alternative alone), the Arabic and the French
\* notice anywhere in the line, all ignoring case
encryptionNoticeRegex(line) ==
  \/ line # <<>> /\ LowerStr(line[1].s) = "messages and calls are end-to-end encrypted"
  \/ \E i \in 1..Len(line) :
       LowerStr(line[i].s) \in {"AR_encryption_notice", "les messages et les appels sont chiffres"}

\* words with a colon inside: the part before and the part after the colon
InnerColonWords == {"https://x.io"}
ColonPre(t) == W("https")
ColonPost(t) == W("//x.io")
IsColon(t) == t = COLON \/ (t.k = "w" /\ t.s \in InnerColonWords)

\* position of the stamp when the line starts with \[?(stamp), else 0
StampAt(line) ==
  LET i == IF Len(line) >= 1 /\ line[1] = LBR THEN 2 ELSE 1
  IN IF Len(line) >= i /\ line[i].k = "ts" /\ line[i].x = "" THEN i ELSE 0

\* what follows the stamp, after \]?\s*-?\s*
AfterStamp(line) ==
  LET r0 == SubSeq(line, StampAt(line) + 1, Len(line))
      r1 == IF r0 # <<>> /\ Head(r0) = RBR THEN Tail(r0) ELSE r0
  IN IF r1 # <<>> /\ Head(r1) = DASH THEN Tail(r1) ELSE r1

FirstColon(rest) ==
  IF \E p \in 1..Len(rest) : IsColon(rest[p])
  THEN CHOOSE p \in 1..Len(rest) : IsColon(rest[p]) /\ \A q \in 1..(p - 1) : ~IsColon(rest[q])
  ELSE 0

\* a match of messageRegex, unless the content group (.+) is empty
MessageMatch(timestamp, sender, content) ==
  IF content = <<>> THEN [ok |-> FALSE]
  ELSE [ok |-> TRUE, timestamp |-> timestamp, sender |-> sender, content |-> content]

\* the sender group ([^:]+?) ends at the first colon, at position p of rest
SplitAtColon(timestamp, rest, p) ==
  IF p = 0 THEN [ok |-> FALSE]
  ELSE IF rest[p] = COLON
  THEN MessageMatch(timestamp, SubSeq(rest, 1, p - 1), SubSeq(rest, p + 1, Len(rest)))
  ELSE MessageMatch(timestamp, SubSeq(rest, 1, p - 1) \o <<ColonPre(rest[p])>>,
                    <<ColonPost(rest[p])>> \o SubSeq(rest, p + 1, Len(rest)))

\* messageRegex: stamp, sender up to the first colon, non-empty content
messageRegex(line) ==
  IF StampAt(line) = 0 THEN [ok |-> FALSE]
  ELSE SplitAtColon(line[StampAt(line)], AfterStamp(line), FirstColon(AfterStamp(line)))

\* systemMessageRegex: stamp and a non-empty remainder; when nothing follows
\* the optional "]" and "-", the match gives one of them, or the meridiem of
\* the stamp, back to the remainder
systemMessageRegex(line) ==
  IF StampAt(line) = 0 THEN [ok |-> FALSE]
  ELSE
    LET st == line[StampAt(line)]
        r0 == SubSeq(line, StampAt(line) + 1, Len(line))
        rest == AfterStamp(line)
    IN IF rest # <<>> THEN [ok |-> TRUE, timestamp |-> st, content |-> rest]
       ELSE IF r0 # <<>> THEN [ok |-> TRUE, timestamp |-> st, content |-> <<r0[Len(r0)]>>]
       ELSE IF st.s # "" THEN [ok |-> TRUE, timestamp |-> [st EXCEPT !.s = ""], content |-> <<W(st.s)>>]
       ELSE [ok |-> FALSE]

youIdentifiers == {"You", "you", "AR_anta", "AR_ant", "Vous", "Tu", "Tu_acute", "Du", "Sie", "Voce"}
\* sender.trim().toLowerCase() equals a lower-cased identifier
isYou(sender) ==
  Len(sender) = 1 /\ sender[1].k = "w" /\
  \E identifier \in youIdentifiers : LowerStr(sender[1].s) = LowerStr(identifier)

(***************************************************************************)
(* Media reference classifier                                              *)
(***************************************************************************)
RECURSIVE TrimText(_)
\* String.prototype.trim on a text: line breaks at both ends go
TrimText(text) ==
  IF text = <<>> THEN <<>>
  ELSE IF Head(text) = NL THEN TrimText(Tail(text))
  ELSE IF text[Len(text)] = NL THEN TrimText(SubSeq(text, 1, Len(text) - 1))
  ELSE text

VendorPrefixes == {"img", "vid", "aud", "doc", "ptt"}
BareExts == {"jpg", "jpeg", "png", "gif", "webp", "mp4", "mov", "avi", "3gp", "opus", "mp3",
             "ogg", "m4a", "pdf", "doc", "docx", "txt", "xlsx"}
EmbeddedExts == BareExts \ {"xlsx"}

\* (?:IMG|VID|AUD|DOC|PTT)-\d{8}-WA\d+\.\w+ , ignoring case
IsVendorName(t) == t.k = "file" /\ t.n # <<>> /\ LowerStr(t.s) \in VendorPrefixes
\* [\w\-]+\.(?:jpg|...|xlsx) up to the end, ignoring case
IsBareGenericName(t) == t.k = "file" /\ LowerStr(t.x) \in BareExts
\* \b[\w\-]+\.(?:jpg|...|txt) with nothing required after it: the match
\* stops at the first extension of the list that fits ("x.docx" gives "x.doc")
HasEmbeddedGeneric(t) == t.k = "file" /\ LowerStr(t.x) \in EmbeddedExts
EmbeddedGeneric(t) == IF LowerStr(t.x) = "docx" THEN [t EXCEPT !.x = "doc"] ELSE t

\* "." followed by the extension
DotExt(e) ==
  CASE e = "jpg" -> ".jpg" [] e = "jpeg" -> ".jpeg" [] e = "png" -> ".png"
    [] e = "gif" -> ".gif" [] e = "webp" -> ".webp" [] e = "mp4" -> ".mp4"
    [] e = "mov" -> ".mov" [] e = "avi" -> ".avi" [] e = "3gp" -> ".3gp"
    [] e = "opus" -> ".opus" [] e = "mp3" -> ".mp3" [] e = "ogg" -> ".ogg"
    [] e = "m4a" -> ".m4a" [] e = "pdf" -> ".pdf" [] e = "doc" -> ".doc"
    [] e = "docx" -> ".docx" [] e = "txt" -> ".txt" [] e = "xlsx" -> ".xlsx"
    [] OTHER -> ".other"

\* lowerContent.includes(marker) / originalContent.includes(marker): the
\* marker strings that the text of one token contains
Markers(t) ==
  LET l == LowerStr(t.s)
  IN (IF l = "(file attached)" THEN {"(file attached)"} ELSE {})
     \cup (IF t.s = "AR_(file attached)" THEN {"AR_(file attached)", "AR_file attached"} ELSE {})
     \cup (IF l = "<attached:" THEN {"<attached:"} ELSE {})
     \cup (IF l = "<media omitted>" THEN {"omitted"} ELSE {})
     \cup (IF l = "image omitted" THEN {"omitted", "image omitted"} ELSE {})
     \cup (IF l = "video omitted" THEN {"omitted", "video omitted"} ELSE {})
     \cup (IF l = "audio omitted" THEN {"omitted", "audio omitted"} ELSE {})
     \cup (IF l = "voice message" THEN {"voice message"} ELSE {})
     \cup (IF t.s = "<AR_excluded AR_media>" THEN {"AR_excluded", "AR_media"} ELSE {})
     \cup (IF t.s = "<AR_excluded AR_image>" THEN {"AR_excluded", "AR_excluded image"} ELSE {})
     \cup (IF t.k = "file" /\ l = "ptt" THEN {"ptt"} ELSE {})
     \cup (IF t.k = "file"
           THEN LET e == LowerStr(t.x)
                IN {DotExt(e)} \cup (IF e = "docx" THEN {".doc"} ELSE {})
           ELSE {})
includes(text, marker) == \E i \in 1..Len(text) : marker \in Markers(text[i])
\* /^PRE-\d{8}-WA\d+/i.test(originalContent)
StartsWithVendor(text, prefixes) ==
  text # <<>> /\ text[1].k = "file" /\ text[1].n # <<>> /\ LowerStr(text[1].s) \in prefixes

(* mediaRegex, three alternatives tried in order at each start position, the
   leftmost start winning; "." does not pass a line break, \s does:
     (.*?)\s*\((?:file attached|AR)\)   |   (.*?)\s*<attached:\s*(.+?)>   |
     <.*?(AR_excluded|omitted).*?>                                          *)
NoNL(c, i, j) == \A q \in i..j : c[q] # NL
AllNL(c, i, j) == \A q \in i..j : c[q] = NL
IsAttachedPhrase(t) == LowerStr(t.s) = "(file attached)" \/ t.s = "AR_(file attached)"
IsAttachedTag(t) == LowerStr(t.s) = "<attached:"
IsOmittedTag(t) == LowerStr(t.s) = "<media omitted>" \/ t.s \in {"<AR_excluded AR_media>", "<AR_excluded AR_image>"}
\* the ends a of group 1 with which alternative 1 matches from i
Alt1Ends(c, i) ==
  {a \in i..(Len(c) + 1) :
     NoNL(c, i, a - 1) /\ \E j \in a..Len(c) : IsAttachedPhrase(c[j]) /\ AllNL(c, a, j - 1)}
\* the triples <<a, b, e>> with which alternative 2 matches from i: group 2
\* is c[i..a-1], group 3 is c[b..e-1], c[e] is the closing ">"
Alt2Matches(c, i) ==
  {m \in (i..(Len(c) + 1)) \X (1..Len(c)) \X (1..Len(c)) :
     /\ NoNL(c, i, m[1] - 1)
     /\ \E j \in m[1]..Len(c) :
          /\ IsAttachedTag(c[j]) /\ AllNL(c, m[1], j - 1)
          /\ j < m[2] /\ m[2] < m[3]
          /\ AllNL(c, j + 1, m[2] - 1)
          /\ NoNL(c, m[2], m[3] - 1)
          /\ c[m[3]] = W(">")}
MinOf(S) == CHOOSE v \in S : \A w \in S : v <= w
MaxOf(S) == CHOOSE v \in S : \A w \in S : v >= w
\* the index of the first match among the indices S that match, 0 for none
FirstIndex(S) == IF S = {} THEN 0 ELSE MinOf(S)
\* the best match of alternative 2 among the matches M: shortest group 2,
\* then longest white space after the tag, then shortest group 3
Alt2Third(M, a, b) == <<a, b, MinOf({m[3] : m \in {mm \in M : mm[1] = a /\ mm[2] = b}})>>
Alt2Second(M, a) == Alt2Third(M, a, MaxOf({m[2] : m \in {mm \in M : mm[1] = a}}))
Alt2Best(c, i) == Alt2Second(Alt2Matches(c, i), MinOf({m[1] : m \in Alt2Matches(c, i)}))
Alt2Groups(c, i, m) ==
  [ok |-> TRUE, g1 |-> <<>>, g2 |-> SubSeq(c, i, m[1] - 1), g3 |-> SubSeq(c, m[2], m[3] - 1)]
MatchesAt(c, i) == Alt1Ends(c, i) # {} \/ Alt2Matches(c, i) # {} \/ IsOmittedTag(c[i])
\* the groups of the match that starts at i
mediaRegexAt(c, i) ==
  IF Alt1Ends(c, i) # {}
  THEN [ok |-> TRUE, g1 |-> SubSeq(c, i, MinOf(Alt1Ends(c, i)) - 1), g2 |-> <<>>, g3 |-> <<>>]
  ELSE IF Alt2Matches(c, i) # {} THEN Alt2Groups(c, i, Alt2Best(c, i))
  ELSE [ok |-> TRUE, g1 |-> <<>>, g2 |-> <<>>, g3 |-> <<>>]
\* groups [1], [2], [3] of content.match(mediaRegex); <<>> for a group that
\* did not take part or is empty
mediaRegex(c) ==
  IF \E i \in 1..Len(c) : MatchesAt(c, i)
  THEN mediaRegexAt(c, MinOf({q \in 1..Len(c) : MatchesAt(c, q)}))
  ELSE [ok |-> FALSE]

UrlWords == {"https://x.io"}
IsUrl(t) == t.k = "w" /\ t.s \in UrlWords

\* a variant that looks for the video triggers before the image triggers
mediaKindVideoFirst(lowerContent, originalContent) ==
  IF \/ includes(lowerContent, "video omitted") \/ includes(originalContent, "AR_excluded video")
     \/ \E e \in {".mp4", ".mov", ".avi", ".3gp"} : includes(lowerContent, e)
     \/ StartsWithVendor(originalContent, {"vid"})
  THEN "video"
  ELSE IF \/ includes(lowerContent, "image omitted") \/ includes(originalContent, "AR_excluded image")
          \/ \E e \in {".jpg", ".png", ".jpeg", ".gif", ".webp"} : includes(lowerContent, e)
          \/ StartsWithVendor(originalContent, {"img"})
  THEN "image"
  ELSE IF \/ \E e \in {".opus", ".mp3", ".ogg", ".m4a"} : includes(lowerContent, e)
          \/ includes(lowerContent, "ptt")
  THEN "audio"
  ELSE IF \E e \in {".pdf", ".doc", ".txt", ".docx", ".xlsx"} : includes(lowerContent, e)
  THEN "document"
  ELSE IF includes(originalContent, "AR_media") \/ includes(originalContent, "AR_excluded")
  THEN "image"
  ELSE "file"

\* the kind chosen when a media indicator is present
mediaKind(lowerContent, originalContent) ==
  IF \/ includes(lowerContent, "image omitted") \/ includes(originalContent, "AR_excluded image")
     \/ \E e \in {".jpg", ".png", ".jpeg", ".gif", ".webp"} : includes(lowerContent, e)
     \/ StartsWithVendor(originalContent, {"img"})
  THEN "image"
  ELSE IF \/ includes(lowerContent, "video omitted") \/ includes(originalContent, "AR_excluded video")
          \/ \E e \in {".mp4", ".mov", ".avi", ".3gp"} : includes(lowerContent, e)
          \/ StartsWithVendor(originalContent, {"vid"})
  THEN "video"
  ELSE IF \/ includes(lowerContent, "audio omitted") \/ includes(lowerContent, "voice message")
          \/ includes(originalContent, "AR_excluded audio")
          \/ \E e \in {".opus", ".mp3", ".ogg", ".m4a"} : includes(lowerContent, e)
          \/ includes(lowerContent, "ptt")
          \/ StartsWithVendor(originalContent, {"ptt", "aud"})
  THEN "audio"
  ELSE IF \/ \E e \in {".pdf", ".doc", ".txt", ".docx", ".xlsx"} : includes(lowerContent, e)
          \/ StartsWithVendor(originalContent, {"doc"})
  THEN "document"
  ELSE IF includes(originalContent, "AR_media") \/ includes(originalContent, "AR_excluded")
  THEN "image"
  ELSE "file"

\* one of filenamePatterns matches the whole trimmed content
isBareFilename(originalContent) ==
  Len(originalContent) = 1 /\
  (IsVendorName(originalContent[1]) \/ IsBareGenericName(originalContent[1]))

\* the first match of the first of embeddedPatterns that matches, <<>> for none
embeddedFilename(originalContent, v, g) ==
  IF v # 0 THEN <<originalContent[v]>>
  ELSE IF g # 0 THEN <<EmbeddedGeneric(originalContent[g])>>
  ELSE <<>>

extractedFilename(originalContent) ==
  IF isBareFilename(originalContent) THEN originalContent
  ELSE embeddedFilename(
         originalContent,
         FirstIndex({i \in 1..Len(originalContent) : IsVendorName(originalContent[i])}),
         FirstIndex({i \in 1..Len(originalContent) : HasEmbeddedGeneric(originalContent[i])}))

hasMediaIndicator(lowerContent, originalContent) ==
  \/ isBareFilename(originalContent)
  \/ includes(lowerContent, "(file attached)")
  \/ includes(lowerContent, "AR_(file attached)")
  \/ includes(originalContent, "AR_file attached")
  \/ includes(lowerContent, "<attached:")
  \/ includes(originalContent, "AR_excluded")
  \/ includes(lowerContent, "omitted")

\* mediaMatch[3] || mediaMatch[1] || mediaMatch[2], <<>> without a match
matchedFilename(mediaMatch) ==
  IF ~mediaMatch.ok THEN <<>>
  ELSE IF mediaMatch.g3 # <<>> THEN mediaMatch.g3
  ELSE IF mediaMatch.g1 # <<>> THEN mediaMatch.g1
  ELSE mediaMatch.g2

\* the name the message gets, old when neither source gives one
mediaNameOf(extracted, filename, old) ==
  IF extracted # <<>> THEN TrimText(extracted)
  ELSE IF filename # <<>> THEN TrimText(filename)
  ELSE old

linkOf(message, u) ==
  IF u # 0 THEN [message EXCEPT !.mediaType = "link", !.mediaUrl = <<message.content[u]>>]
  ELSE message

parseMediaAttachment(message) ==
  IF message.content = <<>> THEN message
  ELSE IF hasMediaIndicator(Lower(message.content), TrimText(message.content))
  THEN [message EXCEPT
          !.mediaType = mediaKind(Lower(message.content), TrimText(message.content)),
          !.mediaName = mediaNameOf(extractedFilename(TrimText(message.content)),
                                    matchedFilename(mediaRegex(message.content)), @)]
  ELSE linkOf(message, FirstIndex({i \in 1..Len(message.content) : IsUrl(message.content[i])}))

(***************************************************************************)
(* Transcript parser.  A transcript is a sequence of lines (the result of  *)
(* content.split('\n')), a line a sequence of tokens.                      *)
(***************************************************************************)
NoMessage == [none |-> TRUE]
NewMessage(content, sender, isFromMe, timestamp, isSystemMessage) ==
  [content |-> content, sender |-> sender, isFromMe |-> isFromMe, timestamp |-> timestamp,
   isSystemMessage |-> isSystemMessage, mediaType |-> Null, mediaName |-> NullT,
   mediaUrl |-> NullT]

\* a variant that forgets the open message
FlushNothing(st) == st.messages
\* messages.push(currentMessage) when a message is open
Flush(st) ==
  IF st.currentMessage = NoMessage THEN st.messages
  ELSE Append(st.messages, st.currentMessage)

Count(senderCounts, sender) ==
  IF sender \in DOMAIN senderCounts THEN senderCounts[sender] ELSE 0

\* the branch of the loop body for a line that matches messageRegex
userLine(st, messageMatch, isYouSender) ==
  [st EXCEPT
     !.messages = Flush(st),
     !.senderCounts = [s \in (DOMAIN @) \cup {messageMatch.sender} |->
                         Count(@, s) + (IF s = messageMatch.sender THEN 1 ELSE 0)],
     !.isGroup = IF ~isYouSender
                    /\ Cardinality((DOMAIN st.senderCounts) \cup {messageMatch.sender}) > 1
                 THEN TRUE ELSE @,
     !.currentMessage =
       parseMediaAttachment(NewMessage(messageMatch.content,
                                       IF isYouSender THEN <<W("You")>> ELSE messageMatch.sender,
                                       isYouSender, parseTimestamp(messageMatch.timestamp), FALSE))]

\* the branch for a line that matches systemMessageRegex only
systemLine(st, systemMatch) ==
  [st EXCEPT
     !.messages = Flush(st),
     !.currentMessage = NewMessage(systemMatch.content, NullT, FALSE,
                                   parseTimestamp(systemMatch.timestamp), TRUE)]

\* a variant that appends to whatever message is open
continuationLineAlways(st, line) ==
  IF st.currentMessage # NoMessage
  THEN [st EXCEPT !.currentMessage =
                    parseMediaAttachment([@ EXCEPT !.content = @ \o <<NL>> \o line])]
  ELSE st

\* the branch for a line that matches neither
continuationLine(st, line) ==
  IF st.currentMessage # NoMessage /\ ~st.currentMessage.isSystemMessage
  THEN [st EXCEPT !.currentMessage =
                    parseMediaAttachment([@ EXCEPT !.content = @ \o <<NL>> \o line])]
  ELSE st

matchLine(st, line, messageMatch) ==
  IF messageMatch.ok THEN userLine(st, messageMatch, isYou(messageMatch.sender))
  ELSE IF systemMessageRegex(line).ok THEN systemLine(st, systemMessageRegex(line))
  ELSE continuationLine(st, line)

normalizeLine(raw) == normalizeArabicNumerals(normalizeText(raw))

\* a variant that skips a line with the encryption notice at any index
parseLineSkipAnyNotice(st, raw, i) ==
  IF IsBlank(raw) THEN st
  ELSE IF encryptionNoticeRegex(raw) THEN st
  ELSE matchLine(st, normalizeLine(raw), messageRegex(normalizeLine(raw)))

\* the body of the loop over the lines, for the line at index i (0-based)
parseLine(st, raw, i) ==
  IF IsBlank(raw) THEN st
  ELSE IF i = 0 /\ encryptionNoticeRegex(raw) THEN st
  ELSE matchLine(st, normalizeLine(raw), messageRegex(normalizeLine(raw)))

RECURSIVE parseLines(_, _, _)
parseLines(st, lines, i) ==
  IF i >= Len(lines) THEN st
  ELSE parseLines(parseLine(st, lines[i + 1], i), lines, i + 1)

\* a variant that takes the sender with the most lines, however many senders
meSenderOfTop(messages, senderCounts) ==
  CHOOSE s \in DOMAIN senderCounts : \A o \in DOMAIN senderCounts : senderCounts[s] >= senderCounts[o]

\* the sender relabelled as "me" when no message is from me, <<>> for none
\* (the empty sender is falsy in the test "if (meSender)", and counts as none)
meSenderOf(messages, senderCounts) ==
  LET senders == DOMAIN senderCounts
  IN IF Cardinality(senders) = 1 THEN CHOOSE s \in senders : TRUE
     ELSE IF Cardinality(senders) = 2
     THEN LET top == CHOOSE s \in senders : \A o \in senders : senderCounts[s] >= senderCounts[o]
              topSenderCount == senderCounts[top]
              totalMessages == Cardinality({k \in 1..Len(messages) : ~messages[k].isSystemMessage})
          IN IF topSenderCount * 100 > 60 * totalMessages THEN top ELSE <<>>
     ELSE <<>>

parseExport(content, chatName) ==
  LET st == parseLines([messages |-> <<>>, currentMessage |-> NoMessage, isGroup |-> FALSE,
                        senderCounts |-> <<>>], content, 0)
      messages == Flush(st)
      hasYouSender == \E k \in 1..Len(messages) : messages[k].isFromMe
      meSender == IF ~hasYouSender /\ DOMAIN st.senderCounts # {}
                  THEN meSenderOf(messages, st.senderCounts) ELSE <<>>
  IN [name |-> chatName,
      messages |-> [k \in 1..Len(messages) |->
                      IF meSender # <<>> /\ messages[k].sender = meSender
                         /\ ~messages[k].isSystemMessage
                      THEN [messages[k] EXCEPT !.isFromMe = TRUE] ELSE messages[k]],
      isGroup |-> st.isGroup]

(***************************************************************************)
(* Media correlator.  A media file descriptor is                           *)
(* [filename |-> token, timestamp |-> instant, type |-> extension]; the    *)
(* descriptors are told apart (the !== of the source) by their position in *)
(* the mediaFiles array.                                                   *)
(***************************************************************************)
DayMs == 24 * 60 * 60 * 1000
ScoreBase == 10000000

\* parseMediaFilename: a vendor name (upper-case prefix) carries its day,
\* taken at 12:00:00; any other name gets the current time
whatsappMediaRegex(filename) ==
  filename.k = "file" /\ filename.n # <<>> /\ filename.s \in {"IMG", "VID", "AUD", "DOC", "PTT"}
parseMediaFilename(filename, currentTime) ==
  IF whatsappMediaRegex(filename)
  THEN [timestamp |-> NewDate(filename.n[1], filename.n[2] - 1, filename.n[3], 12, 0, 0),
        type |-> filename.x]
  ELSE [timestamp |-> currentTime, type |-> filename.x]

mediaTypeMatches(messageType, fileExtension) ==
  LET imageExts == {"jpg", "jpeg", "png", "gif", "webp", "bmp"}
      videoExts == {"mp4", "mov", "avi", "3gp", "mkv", "webm"}
      audioExts == {"opus", "mp3", "ogg", "m4a", "aac", "wav"}
      docExts == {"pdf", "doc", "docx", "txt", "xlsx", "xls", "ppt", "pptx"}
      ext == LowerStr(fileExtension)
  IN IF messageType = Null THEN FALSE
     ELSE IF messageType = "image" THEN ext \in imageExts
     ELSE IF messageType = "video" THEN ext \in videoExts
     ELSE IF messageType = "audio" THEN ext \in audioExts
     ELSE IF messageType = "document" THEN ext \in docExts
     ELSE TRUE

FilenameKey(media) == Lower(<<media.filename>>)

\* mediaByFilename after the index loop: for each lower-cased name the last
\* descriptor of that name
IndexByFilename(mediaFiles) ==
  [key \in {FilenameKey(mediaFiles[k]) : k \in 1..Len(mediaFiles)} |->
     CHOOSE k \in 1..Len(mediaFiles) :
       /\ FilenameKey(mediaFiles[k]) = key
       /\ \A q \in (k + 1)..Len(mediaFiles) : FilenameKey(mediaFiles[q]) # key]

\* getTime() difference in milliseconds
TimeDiff(media, message) == Abs(media.timestamp - message.timestamp) * 1000

\* the candidate test of the fuzzy loop for descriptor k
FuzzyEligible(mediaFiles, mediaByFilename, message, k) ==
  LET media == mediaFiles[k]
      key == FilenameKey(media)
  IN /\ getDateKey(media.timestamp) = getDateKey(message.timestamp)
     /\ ~(key \in DOMAIN mediaByFilename /\ mediaByFilename[key] # k)
     /\ mediaTypeMatches(message.mediaType, media.type)
     /\ TimeDiff(media, message) < DayMs

\* the fuzzy loop: best score above 0, the earlier descriptor on equal score
FuzzyMatch(mediaFiles, mediaByFilename, message) ==
  LET C == {k \in 1..Len(mediaFiles) :
              /\ FuzzyEligible(mediaFiles, mediaByFilename, message, k)
              /\ ScoreBase - TimeDiff(mediaFiles[k], message) > 0}
  IN IF C = {} THEN 0
     ELSE CHOOSE k \in C : \A o \in C :
            \/ TimeDiff(mediaFiles[k], message) < TimeDiff(mediaFiles[o], message)
            \/ (TimeDiff(mediaFiles[k], message) = TimeDiff(mediaFiles[o], message) /\ k <= o)

\* a variant without the exact step
BestMatchFuzzyOnly(mediaFiles, mediaByFilename, message) ==
  FuzzyMatch(mediaFiles, mediaByFilename, message)

\* the descriptor matched to one message, 0 for none
BestMatch(mediaFiles, mediaByFilename, message) ==
  LET lookupKey == Lower(message.mediaName)
  IN IF message.mediaName # NullT /\ message.mediaName # <<>> /\ lookupKey \in DOMAIN mediaByFilename
     THEN mediaByFilename[lookupKey]
     ELSE FuzzyMatch(mediaFiles, mediaByFilename, message)

MediaUrl(userId, filename) == <<W("/media/"), W(userId), filename>>

RECURSIVE mapLoop(_, _, _, _, _)
mapLoop(messages, i, mediaFiles, mediaByFilename, userId) ==
  IF i > Len(messages) THEN messages
  ELSE
    LET message == messages[i]
    IN IF message.mediaType = Null \/ message.mediaType = "link"
       THEN mapLoop(messages, i + 1, mediaFiles, mediaByFilename, userId)
       ELSE
         LET bestMatch == BestMatch(mediaFiles, mediaByFilename, message)
         IN IF bestMatch = 0
            THEN mapLoop(messages, i + 1, mediaFiles, mediaByFilename, userId)
            ELSE
              LET filename == mediaFiles[bestMatch].filename
                  key == FilenameKey(mediaFiles[bestMatch])
                  updated == [message EXCEPT
                                !.mediaUrl = MediaUrl(userId, filename),
                                !.mediaName = IF @ = NullT \/ @ = <<>> THEN <<filename>> ELSE @]
              IN mapLoop([messages EXCEPT ![i] = updated], i + 1, mediaFiles,
                         [kk \in (DOMAIN mediaByFilename) \ {key} |-> mediaByFilename[kk]],
                         userId)

mapMediaToMessages(messages, mediaFiles, userId) ==
  mapLoop(messages, 1, mediaFiles, IndexByFilename(mediaFiles), userId)

(***************************************************************************)
(* Inputs of the model                                                     *)
(***************************************************************************)
\* stamps of 5 December 2023 (the source reads "12/5/23" month first)
T0941 == TS(12, 5, 23, 9, 41, "AM")
T1000 == TS(12, 5, 23, 10, 0, "AM")
T1400 == TS(12, 5, 23, 2, 0, "PM")
T1541 == TS(12, 5, 23, 3, 41, "PM")
T0612 == TS(12, 6, 23, 12, 30, "PM")

IMG1 == VF("IMG", 2023, 12, 5, 1, "jpg")
IMG1lower == VF("img", 2023, 12, 5, 1, "jpg")
IMG2 == VF("IMG", 2023, 12, 5, 2, "jpg")
PTT1 == VF("PTT", 2023, 12, 5, 3, "opus")
SONG == GF("song", "mp3")
CHAT1 == GF("chat_one", "txt")
CHAT2 == GF("chat_two", "txt")

\* a user-message line "stamp - sender: content"
UserLine(stamp, sender, content) == <<stamp, DASH, W(sender), COLON>> \o content
\* a system line "stamp - content"
SystemLine(stamp, content) == <<stamp, DASH>> \o content

\* transcripts carried by the archives of the pipeline model
Transcript1 ==
  << UserLine(T1541, "Ali", <<W("Hello")>>),
     UserLine(T1541, "Ali", <<IMG1>>),
     UserLine(T1400, "Sara", <<W("<Media omitted>")>>) >>
Transcript2 ==
  << UserLine(T1000, "Omar", <<IMG1lower, W("(file attached)")>>),
     <<W("more")>> >>
TranscriptEmpty == << <<>> >>

(***************************************************************************)
(* Archive entries.  An entry is [folder, base, content]: its fileName is  *)
(* folder base; a directory entry has the empty base NoBase and its        *)
(* fileName ends with "/".                                                 *)
(***************************************************************************)
NoBase == [k |-> "none", s |-> "", n |-> <<>>, x |-> ""]
Entry(folder, base, content) == [folder |-> folder, base |-> base, content |-> content]
\* /\/$/.test(fileName) || fileName.startsWith('__MACOSX')
IsSkipped(entry) == entry.base = NoBase \/ entry.folder = "__MACOSX/"
\* fileName.endsWith('.txt')
IsTranscript(entry) == entry.base.x = "txt"
\* path.basename(fileName, '.txt') with "_" replaced by " ", marks stripped
ChatName(entry) ==
  CASE entry.base.s = "chat_one" -> "chat one"
    [] entry.base.s = "chat_two" -> "chat two"
    [] OTHER -> entry.base.s

EDir == Entry("chat/", NoBase, <<>>)
EMac == Entry("__MACOSX/", CHAT1, Transcript1)
EChat1 == Entry("", CHAT1, Transcript1)
EChat2 == Entry("", CHAT2, Transcript2)
EChatEmpty == Entry("", CHAT2, TranscriptEmpty)
EImg1 == Entry("", IMG1, <<>>)
EImg1b == Entry("other/", IMG1, <<>>)
EPtt1 == Entry("", PTT1, <<>>)
ESong == Entry("", SONG, <<>>)

(***************************************************************************)
(* The ingestion pipeline (StreamingZipProcessor) and its collaborators    *)
(***************************************************************************)
Jobs == {"j1", "j2"}
Users == {"u1", "u2"}
\* number of media entries of the long archive
LongLen == 10
LongMedia(i) == VF("IMG", 2023, 12, 6, i, "jpg")
LongArchive == [i \in 1..LongLen |-> Entry("", LongMedia(i), <<>>)]
Basenames == {IMG1, PTT1, SONG} \cup {LongMedia(i) : i \in 1..LongLen}
\* path.join(mediaFolder, basename) with mediaFolder = uploads/media/<userId>
DestPath(user, basename) == <<user, basename>>
Paths == Users \X Basenames

VARIABLES
  live,          \* the jobs submitted in this run
  userId,        \* options.userId of each job
  archive,       \* the entries of the uploaded archive of each job
  locked,        \* whether the file system refuses to delete the source archive
  currentTime,   \* the value of new Date() during the run
  job,           \* the fields and the control state of each StreamingZipProcessor
  upload,        \* the uploads table: the job record of each job
  writes,        \* updateUpload calls issued and not yet settled
  disk,          \* the files of uploads/media
  sourceFile,    \* whether the uploaded archive (filePath) is on disk
  dbChats,       \* the chats handed to createChat, in order
  dbMessages,    \* the batches handed to createMessages, in order
  transcript,    \* parser alone: the transcript given to parseExport
  parsed,        \* parser alone: the result of parseExport
  pool,          \* correlator alone: the media files of the archive
  chats,         \* correlator alone: the parsed transcripts handed to it
  mapped         \* correlator alone: the transcripts after mapMediaToChats

pipelineVars == <<live, userId, archive, locked, currentTime, job, upload, writes, disk,
                  sourceFile, dbChats, dbMessages>>
parserVars == <<transcript, parsed>>
correlatorVars == <<pool, chats, mapped>>
vars == <<pipelineVars, parserVars, correlatorVars>>

Absent == "absent"
AbsentN == 0 - 1
\* the job record created by POST /api/upload for a zip file
NewUpload == [status |-> "pending", progress |-> 0, errorMessage |-> Null,
              chatCount |-> 0, messageCount |-> 0]
\* updateUpload(id, data): the fields present in data replace those of the record
ApplyUpdate(record, data) ==
  [status |-> IF data.status = Absent THEN record.status ELSE data.status,
   progress |-> IF data.progress = AbsentN THEN record.progress ELSE data.progress,
   errorMessage |-> IF data.errorMessage = Absent THEN record.errorMessage ELSE data.errorMessage,
   chatCount |-> IF data.chatCount = AbsentN THEN record.chatCount ELSE data.chatCount,
   messageCount |-> IF data.messageCount = AbsentN THEN record.messageCount ELSE data.messageCount]

\* a variant of updateProgress that reports completion from 95 on
updateDataFrom95(progress, messageCount, chatCount) ==
  [progress |-> progress,
   status |-> IF progress >= 95 THEN "completed" ELSE "processing",
   errorMessage |-> Absent,
   messageCount |-> IF progress = 100 THEN messageCount ELSE AbsentN,
   chatCount |-> IF progress = 100 THEN chatCount ELSE AbsentN]
\* updateProgress: the update it hands to updateUpload
updateData(progress, messageCount, chatCount) ==
  [progress |-> progress,
   status |-> IF progress = 100 THEN "completed" ELSE "processing",
   errorMessage |-> Absent,
   messageCount |-> IF progress = 100 THEN messageCount ELSE AbsentN,
   chatCount |-> IF progress = 100 THEN chatCount ELSE AbsentN]
\* the update of the catch block of process()
failedData(message) ==
  [progress |-> AbsentN, status |-> "failed", errorMessage |-> message,
   messageCount |-> AbsentN, chatCount |-> AbsentN]

\* progress reported during the entry scan
scanProgress(processedFiles) == 5 + Min(40, processedFiles \div 5)
\* whether the scan reports progress after this many files
reportsProgress(processedFiles) == processedFiles % 10 = 0

\* a variant of the milestones with those of correlation and persistence swapped
milestoneSwapped(phase) ==
  CASE phase = "extract" -> 5
    [] phase = "parse" -> 50
    [] phase = "correlate" -> 80
    [] phase = "persist" -> 70
    [] phase = "delete" -> 95
    [] phase = "complete" -> 100
\* the milestone passed to updateProgress when a phase begins
milestone(phase) ==
  CASE phase = "extract" -> 5
    [] phase = "parse" -> 50
    [] phase = "correlate" -> 70
    [] phase = "persist" -> 80
    [] phase = "delete" -> 95
    [] phase = "complete" -> 100

\* where process() continues once the awaited updateProgress has settled
resume(pc) ==
  CASE pc = "w5" -> "open"
    [] pc = "w50" -> "parse"
    [] pc = "w70" -> "map"
    [] pc = "w80" -> "save"
    [] pc = "w95" -> "unlink"
    [] pc = "w100" -> "returned"
    [] pc = "wfailed" -> "cleanup"

NewJob ==
  [pc |-> "pending", entryIdx |-> 0, processedFiles |-> 0, chatFiles |-> <<>>,
   mediaFiles |-> <<>>, extractedMediaPaths |-> <<>>, parsedChats |-> <<>>,
   saveIdx |-> 0, totalMessages |-> 0, cleanIdx |-> 0,
   issued |-> <<>>, phases |-> <<>>, raised |-> Null]

\* a phase joins the record of the phases run, once per uninterrupted stretch
Logged(phases, phase) ==
  IF phases # <<>> /\ phases[Len(phases)] = phase THEN phases ELSE Append(phases, phase)

Write(j, data, awaited) == [job |-> j, data |-> data, awaited |-> awaited]
\* the catch block of process(): the failure is recorded, then awaited
Caught(jr, message) == [jr EXCEPT !.pc = "wfailed", !.raised = message]
\* an awaited updateProgress(milestone) is issued and process() waits for it
Awaiting(jr, phase, pc) ==
  [jr EXCEPT !.pc = pc, !.issued = Append(@, milestone(phase))]
\* processedFiles++ and the progress report of the scan, which is not awaited
Counted(jr) ==
  [jr EXCEPT !.processedFiles = @ + 1,
             !.issued = IF reportsProgress(jr.processedFiles + 1)
                        THEN Append(@, scanProgress(jr.processedFiles + 1)) ELSE @]
ScanWrites(j, jr) ==
  IF reportsProgress(jr.processedFiles + 1)
  THEN {Write(j, updateData(scanProgress(jr.processedFiles + 1), AbsentN, AbsentN), FALSE)}
  ELSE {}

envVars == <<live, userId, archive, locked, currentTime>>
otherVars == <<parserVars, correlatorVars>>

\* setImmediate callback: process() starts with updateProgress(5)
Start(j) ==
  /\ j \in live /\ job[j].pc = "pending"
  /\ job' = [job EXCEPT ![j] = Awaiting(@, "extract", "w5")]
  /\ writes' = writes \cup {Write(j, updateData(milestone("extract"), AbsentN, AbsentN), TRUE)}
  /\ UNCHANGED <<envVars, upload, disk, sourceFile, dbChats, dbMessages, otherVars>>

\* yauzl.open and its callback up to the first readEntry
OpenZip(j) ==
  /\ j \in live /\ job[j].pc = "open"
  /\ \/ /\ job' = [job EXCEPT ![j] = [@ EXCEPT !.pc = "mkdir"]]
        /\ UNCHANGED writes
     \/ /\ job' = [job EXCEPT ![j] = Caught(@, "cannot open archive")]
        /\ writes' = writes \cup {Write(j, failedData("cannot open archive"), TRUE)}
  /\ UNCHANGED <<envVars, upload, disk, sourceFile, dbChats, dbMessages, otherVars>>

MakeMediaFolder(j) ==
  /\ j \in live /\ job[j].pc = "mkdir"
  /\ \/ /\ job' = [job EXCEPT ![j] = [@ EXCEPT !.pc = "scan"]]
        /\ UNCHANGED writes
     \/ /\ job' = [job EXCEPT ![j] = Caught(@, "mkdir failed")]
        /\ writes' = writes \cup {Write(j, failedData("mkdir failed"), TRUE)}
  /\ UNCHANGED <<envVars, upload, disk, sourceFile, dbChats, dbMessages, otherVars>>

\* a variant that asks for the next entry as soon as the streams are open
OpenWriteStreamNoWait(jr) ==
  [jr EXCEPT !.entryIdx = @ + 1, !.phases = Logged(@, "scan")]

\* the media branch up to "await pipeline(readStream, writeStream)": nothing
\* calls readEntry() until the pipeline settles
OpenWriteStream(jr) ==
  [jr EXCEPT !.pc = "pipe", !.phases = Logged(@, "scan")]

\* one 'entry', 'end' or 'error' event of the zip file after readEntry()
ReadEntry(j) ==
  /\ j \in live /\ job[j].pc = "scan"
  /\ LET jr == job[j]
         more == jr.entryIdx < Len(archive[j])
         entry == archive[j][jr.entryIdx + 1]
         next == [jr EXCEPT !.entryIdx = @ + 1, !.phases = Logged(@, "scan")]
     IN \/ /\ ~more
           /\ job' = [job EXCEPT ![j] = Awaiting([jr EXCEPT !.phases = Logged(@, "scan")], "parse", "w50")]
           /\ writes' = writes \cup {Write(j, updateData(milestone("parse"), AbsentN, AbsentN), TRUE)}
           /\ UNCHANGED disk
        \/ /\ more /\ IsSkipped(entry)
           /\ job' = [job EXCEPT ![j] = next]
           /\ UNCHANGED <<writes, disk>>
        \/ /\ more /\ ~IsSkipped(entry) /\ IsTranscript(entry)
           /\ job' = [job EXCEPT ![j] =
                        Counted([next EXCEPT !.chatFiles =
                                   Append(@, [name |-> ChatName(entry), content |-> entry.content])])]
           /\ writes' = writes \cup ScanWrites(j, jr)
           /\ UNCHANGED disk
        \/ /\ more /\ ~IsSkipped(entry) /\ ~IsTranscript(entry)
           /\ job' = [job EXCEPT ![j] = OpenWriteStream(jr)]
           /\ disk' = [disk EXCEPT ![DestPath(userId[j], entry.base)] = [state |-> "partial", by |-> j]]
           /\ UNCHANGED writes
        \/ /\ job' = [job EXCEPT ![j] = Caught(@, "cannot read archive")]
           /\ writes' = writes \cup {Write(j, failedData("cannot read archive"), TRUE)}
           /\ UNCHANGED disk
  /\ UNCHANGED <<envVars, upload, sourceFile, dbChats, dbMessages, otherVars>>

\* the descriptor pushed to mediaFiles for a written media entry
MediaFile(basename, now) ==
  [filename |-> basename,
   timestamp |-> parseMediaFilename(basename, now).timestamp,
   type |-> parseMediaFilename(basename, now).type]

\* await pipeline(readStream, writeStream) settles for the current media entry
Pipeline(j) ==
  /\ j \in live /\ job[j].pc = "pipe"
  /\ LET jr == job[j]
         basename == archive[j][jr.entryIdx + 1].base
         destPath == DestPath(userId[j], basename)
     IN \/ /\ disk' = [disk EXCEPT ![destPath] = [state |-> "full", by |-> j]]
           /\ job' = [job EXCEPT ![j] =
                        Counted([jr EXCEPT
                                   !.pc = "scan",
                                   !.entryIdx = @ + 1,
                                   !.extractedMediaPaths = Append(@, destPath),
                                   !.mediaFiles = Append(@, MediaFile(basename, currentTime))])]
           /\ writes' = writes \cup ScanWrites(j, jr)
        \/ /\ job' = [job EXCEPT ![j] = Caught(@, "write failed")]
           /\ writes' = writes \cup {Write(j, failedData("write failed"), TRUE)}
           /\ UNCHANGED disk
  /\ UNCHANGED <<envVars, upload, sourceFile, dbChats, dbMessages, otherVars>>

\* parseChats, then updateProgress(70)
ParseChats(j) ==
  /\ j \in live /\ job[j].pc = "parse"
  /\ LET jr == job[j]
         parsedChats == [i \in 1..Len(jr.chatFiles) |->
                           parseExport(jr.chatFiles[i].content, jr.chatFiles[i].name)]
     IN job' = [job EXCEPT ![j] =
                  Awaiting([jr EXCEPT !.parsedChats = parsedChats, !.phases = Logged(@, "parse")],
                           "correlate", "w70")]
  /\ writes' = writes \cup {Write(j, updateData(milestone("correlate"), AbsentN, AbsentN), TRUE)}
  /\ UNCHANGED <<envVars, upload, disk, sourceFile, dbChats, dbMessages, otherVars>>

\* mapMediaToChats: every parsed chat against the media files of the archive
mapMediaToChats(parsedChats, mediaFiles, user) ==
  [i \in 1..Len(parsedChats) |->
     [parsedChats[i] EXCEPT !.messages = mapMediaToMessages(@, mediaFiles, user)]]

\* mapMediaToChats, then updateProgress(80)
MapMedia(j) ==
  /\ j \in live /\ job[j].pc = "map"
  /\ LET jr == job[j]
     IN job' = [job EXCEPT ![j] =
                  Awaiting([jr EXCEPT
                              !.parsedChats = mapMediaToChats(@, jr.mediaFiles, userId[j]),
                              !.phases = Logged(@, "correlate")],
                           "persist", "w80")]
  /\ writes' = writes \cup {Write(j, updateData(milestone("persist"), AbsentN, AbsentN), TRUE)}
  /\ UNCHANGED <<envVars, upload, disk, sourceFile, dbChats, dbMessages, otherVars>>

\* saveToDatabase: createChat for the next chat, or the end of the loop and
\* updateProgress(95)
CreateChat(j) ==
  /\ j \in live /\ job[j].pc = "save"
  /\ LET jr == job[j]
         more == jr.saveIdx < Len(jr.parsedChats)
         parsedChat == jr.parsedChats[jr.saveIdx + 1]
         logged == [jr EXCEPT !.phases = Logged(@, "persist")]
     IN \/ /\ ~more
           /\ job' = [job EXCEPT ![j] = Awaiting(logged, "delete", "w95")]
           /\ writes' = writes \cup {Write(j, updateData(milestone("delete"), AbsentN, AbsentN), TRUE)}
           /\ UNCHANGED dbChats
        \/ /\ more
           /\ dbChats' = Append(dbChats, [job |-> j, userId |-> userId[j], index |-> jr.saveIdx + 1,
                                          name |-> parsedChat.name, isGroup |-> parsedChat.isGroup,
                                          messageCount |-> Len(parsedChat.messages)])
           /\ job' = [job EXCEPT ![j] =
                        IF Len(parsedChat.messages) > 0
                        THEN [logged EXCEPT !.pc = "messages"]
                        ELSE [logged EXCEPT !.saveIdx = @ + 1]]
           /\ UNCHANGED writes
        \/ /\ more
           /\ job' = [job EXCEPT ![j] = Caught(logged, "createChat failed")]
           /\ writes' = writes \cup {Write(j, failedData("createChat failed"), TRUE)}
           /\ UNCHANGED dbChats
  /\ UNCHANGED <<envVars, upload, disk, sourceFile, dbMessages, otherVars>>

\* saveToDatabase: createMessages for the chat just created
CreateMessages(j) ==
  /\ j \in live /\ job[j].pc = "messages"
  /\ LET jr == job[j]
         parsedChat == jr.parsedChats[jr.saveIdx + 1]
     IN \/ /\ dbMessages' = Append(dbMessages, [job |-> j, index |-> jr.saveIdx + 1,
                                                messages |-> parsedChat.messages])
           /\ job' = [job EXCEPT ![j] =
                        [jr EXCEPT !.pc = "save", !.saveIdx = @ + 1,
                                   !.totalMessages = @ + Len(parsedChat.messages)]]
           /\ UNCHANGED writes
        \/ /\ job' = [job EXCEPT ![j] = Caught(@, "createMessages failed")]
           /\ writes' = writes \cup {Write(j, failedData("createMessages failed"), TRUE)}
           /\ UNCHANGED dbMessages
  /\ UNCHANGED <<envVars, upload, disk, sourceFile, dbChats, otherVars>>

\* fs.unlink(filePath) after the save, then updateProgress(100, ...)
UnlinkSource(j) ==
  /\ j \in live /\ job[j].pc = "unlink"
  /\ LET jr == job[j]
         logged == [jr EXCEPT !.phases = Logged(@, "delete")]
     IN IF sourceFile[j] /\ ~locked[j]
        THEN /\ sourceFile' = [sourceFile EXCEPT ![j] = FALSE]
             /\ job' = [job EXCEPT ![j] = Awaiting(logged, "complete", "w100")]
             /\ writes' = writes \cup
                  {Write(j, updateData(milestone("complete"), jr.totalMessages, Len(jr.parsedChats)), TRUE)}
        ELSE /\ job' = [job EXCEPT ![j] = Caught(logged, "unlink failed")]
             /\ writes' = writes \cup {Write(j, failedData("unlink failed"), TRUE)}
             /\ UNCHANGED sourceFile
  /\ UNCHANGED <<envVars, upload, disk, dbChats, dbMessages, otherVars>>

\* where process() stands once an awaited updateUpload has settled
Settled(jr, ok) ==
  IF jr.pc = "wfailed" /\ ~ok THEN [jr EXCEPT !.pc = "rejected"]
  ELSE IF jr.pc = "w100"
  THEN [jr EXCEPT !.pc = resume(jr.pc), !.phases = Logged(@, "complete")]
  ELSE [jr EXCEPT !.pc = resume(jr.pc)]

\* an updateUpload call takes effect in the uploads table
UpdateLands(w) ==
  /\ w \in writes
  /\ writes' = writes \ {w}
  /\ upload' = [upload EXCEPT ![w.job] = ApplyUpdate(@, w.data)]
  /\ job' = IF w.awaited THEN [job EXCEPT ![w.job] = Settled(@, TRUE)] ELSE job
  /\ UNCHANGED <<envVars, disk, sourceFile, dbChats, dbMessages, otherVars>>

\* an updateUpload call rejects: updateProgress logs and swallows the error,
\* the catch block of process() lets it escape
UpdateFails(w) ==
  /\ w \in writes
  /\ writes' = writes \ {w}
  /\ job' = IF w.awaited THEN [job EXCEPT ![w.job] = Settled(@, FALSE)] ELSE job
  /\ UNCHANGED <<envVars, upload, disk, sourceFile, dbChats, dbMessages, otherVars>>

\* cleanupOnFailure: unlink of the source archive, errors swallowed
CleanupSource(j) ==
  /\ j \in live /\ job[j].pc = "cleanup"
  /\ sourceFile' = [sourceFile EXCEPT ![j] = IF locked[j] THEN @ ELSE FALSE]
  /\ job' = [job EXCEPT ![j] = [@ EXCEPT !.pc = "cleanupMedia"]]
  /\ UNCHANGED <<envVars, upload, writes, disk, dbChats, dbMessages, otherVars>>

NoFile == [state |-> "absent", by |-> "none"]
\* cleanupOnFailure: unlink of the next path of extractedMediaPaths, errors
\* swallowed; after the last one process() returns
CleanupMedia(j) ==
  /\ j \in live /\ job[j].pc = "cleanupMedia"
  /\ LET jr == job[j]
     IN IF jr.cleanIdx < Len(jr.extractedMediaPaths)
        THEN /\ disk' = [disk EXCEPT ![jr.extractedMediaPaths[jr.cleanIdx + 1]] = NoFile]
             /\ job' = [job EXCEPT ![j] = [jr EXCEPT !.cleanIdx = @ + 1]]
        ELSE /\ job' = [job EXCEPT ![j] = [jr EXCEPT !.pc = "returned"]]
             /\ UNCHANGED disk
  /\ UNCHANGED <<envVars, upload, writes, sourceFile, dbChats, dbMessages, otherVars>>

(***************************************************************************)
(* Specifications                                                          *)
(***************************************************************************)
\* all sequences over S of length at most n
RECURSIVE SeqsUpTo(_, _)
SeqsUpTo(S, n) ==
  IF n = 0 THEN {<<>>}
  ELSE LET shorter == SeqsUpTo(S, n - 1)
       IN shorter \cup {Append(q, e) : q \in {r \in shorter : Len(r) = n - 1}, e \in S}

\* longest archive drawn from the entry pool
MaxEntries == 2
EntryPool == {EDir, EMac, EChat1, EChat2, EChatEmpty, EImg1, EImg1b, EPtt1, ESong}
ArchivesOne ==
  SeqsUpTo(EntryPool, MaxEntries)
    \cup {LongArchive, LongArchive \o <<EChat1>>, <<EChat1, EChat2, EImg1>>,
          <<EImg1, EPtt1, EChat1, EChat2>>}
ArchivesTwo == {<<EDir, EImg1>>, <<EChat1, EImg1>>}
\* new Date() during the run: the afternoon of the day of the transcripts, or later
NowChoices == {NewDate(2023, 11, 5, 13, 0, 0), NewDate(2024, 0, 15, 8, 0, 0)}

ParserIdle == transcript = <<>> /\ parsed = [done |-> FALSE]
CorrelatorIdle == pool = <<>> /\ chats = <<>> /\ mapped = [done |-> FALSE]

PipelineInit(jobs, archives, users2) ==
  /\ live = jobs
  /\ userId \in {f \in [Jobs -> Users] : f["j1"] = "u1" /\ f["j2"] \in users2}
  /\ archive \in {f \in [Jobs -> archives \cup {<<>>}] : \A j \in Jobs : j \notin jobs => f[j] = <<>>}
  /\ locked \in {f \in [Jobs -> BOOLEAN] : \A j \in Jobs : j \notin jobs => ~f[j]}
  /\ currentTime \in NowChoices
  /\ job = [j \in Jobs |-> NewJob]
  /\ upload = [j \in Jobs |-> NewUpload]
  /\ writes = {}
  /\ disk = [p \in Paths |-> NoFile]
  /\ sourceFile = [j \in Jobs |-> j \in jobs]
  /\ dbChats = <<>>
  /\ dbMessages = <<>>

\* one upload
Init == PipelineInit({"j1"}, ArchivesOne, {"u1"}) /\ ParserIdle /\ CorrelatorIdle
\* two uploads in flight, of one user or of two, each with an archive that
\* holds the same picture
InitTwo ==
  /\ PipelineInit(Jobs, ArchivesTwo, Users)
  /\ \A j \in Jobs : archive[j] # <<>> /\ ~locked[j]
  /\ currentTime = NewDate(2023, 11, 5, 13, 0, 0)
  /\ ParserIdle /\ CorrelatorIdle

Next ==
  \/ \E j \in Jobs :
       \/ Start(j) \/ OpenZip(j) \/ MakeMediaFolder(j) \/ ReadEntry(j) \/ Pipeline(j)
       \/ ParseChats(j) \/ MapMedia(j) \/ CreateChat(j) \/ CreateMessages(j)
       \/ UnlinkSource(j) \/ CleanupSource(j) \/ CleanupMedia(j)
  \/ \E w \in writes : UpdateLands(w) \/ UpdateFails(w)

Spec == Init /\ [][Next]_vars
SpecTwo == InitTwo /\ [][Next]_vars

(***************************************************************************)
(* The parser on its own: parseExport applied to a transcript              *)
(***************************************************************************)
\* longest transcript, in lines
MaxLines == 3
LinePool ==
  { UserLine(T0941, "Ali", <<W("Hello")>>),
    UserLine(T1000, "You", <<W("ok")>>),
    UserLine(T1400, "Omar", <<IMG1, W("(file attached)")>>),
    UserLine(T0941, "Sara", <<W("Les messages et les appels sont chiffres")>>),
    SystemLine(T0941, <<W("Les messages et les appels sont chiffres")>>),
    SystemLine(T1541, <<W("Sara joined")>>),
    <<W("Messages and calls are end-to-end encrypted")>>,
    <<LRM, T0612, DASH, W("Ali"), COLON, W("late")>>,
    <<W("more")>>,
    <<>> }
\* content.split('\n') never gives an empty array
Transcripts == SeqsUpTo(LinePool, MaxLines) \ {<<>>}

PipelineIdle == PipelineInit({}, {}, {"u1"})

InitParse ==
  /\ PipelineIdle /\ CorrelatorIdle
  /\ transcript \in Transcripts
  /\ parsed = [done |-> FALSE]

ParseTranscript ==
  /\ ~parsed.done
  /\ parsed' = [done |-> TRUE, chat |-> parseExport(transcript, "chat")]
  /\ UNCHANGED <<pipelineVars, transcript, correlatorVars>>

NextParse == ParseTranscript
SpecParse == InitParse /\ [][NextParse]_vars

(***************************************************************************)
(* The correlator on its own: mapMediaToChats applied to parsed chats and  *)
(* the media files of an archive                                           *)
(***************************************************************************)
\* most transcripts and most media files of an archive
MaxChats == 2
MaxMedia == 2
Transcript3 ==
  << UserLine(T0941, "Sara", <<W("<attached:"), PTT1, W(">")>>),
     UserLine(T1000, "You", <<W("<Media omitted>")>>),
     UserLine(T0612, "Sara", <<W("image omitted")>>) >>
\* a message of 6 December that names song.mp3 and is classified as an image
Transcript4 ==
  << UserLine(T0612, "Sara", <<SONG, W("image omitted")>>) >>
TranscriptPool == {Transcript1, Transcript2, Transcript3, Transcript4}
MediaPool == {IMG1, IMG1lower, IMG2, PTT1, SONG}

InitCorrelate ==
  /\ PipelineIdle /\ ParserIdle
  /\ pool \in {[i \in 1..Len(names) |-> MediaFile(names[i], currentTime)] :
                 names \in SeqsUpTo(MediaPool, MaxMedia)}
  /\ chats \in {[i \in 1..Len(ts) |-> parseExport(ts[i], "chat")] :
                  ts \in SeqsUpTo(TranscriptPool, MaxChats)}
  /\ mapped = [done |-> FALSE]

Correlate ==
  /\ ~mapped.done
  /\ mapped' = [done |-> TRUE, chats |-> mapMediaToChats(chats, pool, "u1")]
  /\ UNCHANGED <<pipelineVars, parserVars, pool, chats>>

NextCorrelate == Correlate
SpecCorrelate == InitCorrelate /\ [][NextCorrelate]_vars

(***************************************************************************)
(* Properties of the ingestion pipeline                                    *)
(***************************************************************************)
Terminal == {"completed", "failed"}
Range(s) == {s[i] : i \in DOMAIN s}
\* process() has returned or rejected
Finished(j) == job[j].pc \in {"returned", "rejected"}
\* a step of the stored status that follows pending -> processing -> terminal
StatusStep(a, b) ==
  \/ a = b
  \/ a = "pending"
  \/ a = "processing" /\ b \in Terminal

\* C1: the stored progress of a job never decreases, whatever the order in
\* which its progress writes land, and it no longer changes once the stored
\* status is completed or failed
C1_ProgressMonotoneThenFrozen ==
  [][\A j \in Jobs :
       /\ upload'[j].progress >= upload[j].progress
       /\ upload[j].status \in Terminal => upload'[j].progress = upload[j].progress]_vars

\* C2: the stored status only moves pending -> processing -> completed or
\* failed, and a stored completed or failed is never changed by a later write
C2_StatusForwardAndFinal ==
  [][\A j \in Jobs : StatusStep(upload[j].status, upload'[j].status)]_vars

\* C3: once process() has ended after an error was raised, the job is stored
\* as failed with an error message, the source archive is gone and every path
\* of the extraction ledger is gone
C3_FailureCleansUp ==
  \A j \in live :
    (Finished(j) /\ job[j].raised # Null) =>
      /\ upload[j].status = "failed"
      /\ upload[j].errorMessage # Null
      /\ ~sourceFile[j]
      /\ \A p \in Range(job[j].extractedMediaPaths) : disk[p] = NoFile

\* C4: after a failed job has finished its cleanup, no media file that the
\* job wrote, fully or in part, is on disk
C4_NoMediaLeftAfterFailure ==
  \A j \in live :
    (job[j].pc = "returned" /\ job[j].raised # Null) =>
      \A p \in Paths : disk[p].by # j

\* the media paths a job has written or is writing
Touched(j) ==
  Range(job[j].extractedMediaPaths)
    \cup (IF job[j].pc = "pipe"
          THEN {DestPath(userId[j], archive[j][job[j].entryIdx + 1].base)} ELSE {})

\* C7: two jobs in flight, of the same user or not, never write the same
\* media path, so neither deletes a file of the other
C7_JobsTouchDistinctPaths ==
  \A j1 \in live : \A j2 \in live \ {j1} : Touched(j1) \cap Touched(j2) = {}

\* C8: in a run of process() that completes, the phases ran in the order
\* scan, parse, correlate, persist, delete, complete, and the milestones were
\* issued in the order 5, scan values within 5..45, 50, 70, 80, 95, 100
C8_PhasesAndMilestonesInOrder ==
  \A j \in live :
    (job[j].pc = "returned" /\ job[j].raised = Null) =>
      /\ job[j].phases = <<"scan", "parse", "correlate", "persist", "delete", "complete">>
      /\ Len(job[j].issued) >= 6
      /\ job[j].issued[1] = 5
      /\ \A k \in 2..(Len(job[j].issued) - 5) : job[j].issued[k] \in 5..45
      /\ SubSeq(job[j].issued, Len(job[j].issued) - 4, Len(job[j].issued)) = <<50, 70, 80, 95, 100>>

\* a completed run that reported scan progress and parsed a transcript
C8_Witness ==
  \E j \in live :
    /\ job[j].pc = "returned" /\ job[j].raised = Null
    /\ Len(job[j].issued) > 6
    /\ Len(job[j].parsedChats) > 0

IsChatEntry(entry) == ~IsSkipped(entry) /\ IsTranscript(entry)
\* the records of one job in a log of the storage collaborator
OfJob(log, j) == SelectSeq(log, LAMBDA r : r.job = j)
RECURSIVE TotalMessages(_)
TotalMessages(batches) ==
  IF batches = <<>> THEN 0
  ELSE Len(Head(batches).messages) + TotalMessages(Tail(batches))

\* C9: while the stored status is completed, the progress is 100, the source
\* archive is deleted, every transcript of the archive was handed to
\* createChat, and to createMessages when it has messages, chatCount is the
\* number of transcripts and messageCount the number of messages handed over
C9_CompletedMeansAllDone ==
  \A j \in live :
    upload[j].status = "completed" =>
      /\ upload[j].progress = 100
      /\ ~sourceFile[j]
      /\ [i \in 1..Len(OfJob(dbChats, j)) |-> OfJob(dbChats, j)[i].name]
           = [i \in 1..Len(SelectSeq(archive[j], IsChatEntry)) |->
                ChatName(SelectSeq(archive[j], IsChatEntry)[i])]
      /\ \A i \in 1..Len(OfJob(dbChats, j)) :
           OfJob(dbChats, j)[i].messageCount > 0 =>
             \E k \in 1..Len(OfJob(dbMessages, j)) :
               /\ OfJob(dbMessages, j)[k].index = i
               /\ Len(OfJob(dbMessages, j)[k].messages) = OfJob(dbChats, j)[i].messageCount
      /\ upload[j].chatCount = Len(SelectSeq(archive[j], IsChatEntry))
      /\ upload[j].messageCount = TotalMessages(OfJob(dbMessages, j))

\* a completed job with two transcripts, one of them with messages
C9_Witness ==
  \E j \in live :
    /\ upload[j].status = "completed"
    /\ upload[j].chatCount = 2
    /\ upload[j].messageCount > 0

(***************************************************************************)
(* Properties of the correlator                                            *)
(***************************************************************************)
\* the message was given the URL of a media file
Linked(m) == m.mediaType \notin {Null, "link"} /\ m.mediaUrl # NullT

\* C5: after one mapMediaToMessages pass no two messages of the transcript
\* carry the URL of the same media file
C5_InjectiveWithinPass ==
  mapped.done =>
    \A c \in 1..Len(mapped.chats) :
      \A k1 \in 1..Len(mapped.chats[c].messages) :
        \A k2 \in 1..Len(mapped.chats[c].messages) :
          (k1 # k2 /\ Linked(mapped.chats[c].messages[k1])
                   /\ Linked(mapped.chats[c].messages[k2])) =>
            mapped.chats[c].messages[k1].mediaUrl # mapped.chats[c].messages[k2].mediaUrl

\* C6: after the correlation of all transcripts of an archive no two messages
\* of different transcripts carry the URL of the same media file
C6_InjectiveAcrossTranscripts ==
  mapped.done =>
    \A c1 \in 1..Len(mapped.chats) :
      \A c2 \in 1..Len(mapped.chats) :
        c1 # c2 =>
          \A k1 \in 1..Len(mapped.chats[c1].messages) :
            \A k2 \in 1..Len(mapped.chats[c2].messages) :
              (Linked(mapped.chats[c1].messages[k1]) /\ Linked(mapped.chats[c2].messages[k2])) =>
                mapped.chats[c1].messages[k1].mediaUrl # mapped.chats[c2].messages[k2].mediaUrl

(***************************************************************************)
(* Properties of the parser                                                *)
(***************************************************************************)
\* the line, once normalized, matches the user-message or the system-message grammar
GrammarLine(raw) ==
  messageRegex(normalizeLine(raw)).ok \/ systemMessageRegex(normalizeLine(raw)).ok
\* the first line when it carries the encryption notice
NoticeLine(lines, i) == i = 1 /\ encryptionNoticeRegex(lines[1])
Indices(lines) == [i \in 1..Len(lines) |-> i]
\* what the message made from a line starts as
HeadOf(raw) ==
  IF messageRegex(normalizeLine(raw)).ok
  THEN [timestamp |-> parseTimestamp(messageRegex(normalizeLine(raw)).timestamp),
        isSystemMessage |-> FALSE,
        content |-> messageRegex(normalizeLine(raw)).content]
  ELSE [timestamp |-> parseTimestamp(systemMessageRegex(normalizeLine(raw)).timestamp),
        isSystemMessage |-> TRUE,
        content |-> systemMessageRegex(normalizeLine(raw)).content]
\* message k was made from the line at index i
MadeFrom(message, raw) ==
  /\ message.timestamp = HeadOf(raw).timestamp
  /\ message.isSystemMessage = HeadOf(raw).isSystemMessage
  /\ Len(message.content) >= Len(HeadOf(raw).content)
  /\ SubSeq(message.content, 1, Len(HeadOf(raw).content)) = HeadOf(raw).content
\* the messages are those of the lines at the indices at, in that order
OnePerLine(messages, lines, at) ==
  /\ Len(messages) = Len(at)
  /\ \A k \in 1..Len(at) : MadeFrom(messages[k], lines[at[k]])

\* C10 as stated: parseExport yields one message per line that matches the
\* user-message or the system-message grammar, in the order of those lines
C10_OneMessagePerGrammarLine ==
  parsed.done =>
    OnePerLine(parsed.chat.messages, transcript,
               SelectSeq(Indices(transcript), LAMBDA i : GrammarLine(transcript[i])))

\* C10 amended: parseExport yields one message per line that matches the
\* user-message or the system-message grammar, in the order of those lines,
\* except for a first line that carries the encryption notice, which yields
\* none; continuation and blank lines yield none
C10_OneMessagePerGrammarLineAfterNotice ==
  parsed.done =>
    OnePerLine(parsed.chat.messages, transcript,
               SelectSeq(Indices(transcript),
                         LAMBDA i : GrammarLine(transcript[i]) /\ ~NoticeLine(transcript, i)))

\* a parsed transcript of three lines whose first line carries the notice and
\* matches a grammar, followed by a message line and a continuation line
C10_Witness ==
  /\ parsed.done
  /\ Len(transcript) = 3
  /\ NoticeLine(transcript, 1) /\ GrammarLine(transcript[1])
  /\ GrammarLine(transcript[2])
  /\ ~GrammarLine(transcript[3]) /\ ~IsBlank(transcript[3])
  /\ Len(parsed.chat.messages) = 1

\* the indices of the lines that start a message: those that match a grammar,
\* but for a first line that carries the encryption notice
StartingLines(lines) ==
  SelectSeq(Indices(lines), LAMBDA i : GrammarLine(lines[i]) /\ ~NoticeLine(lines, i))
\* every system message holds the remainder of its own line and nothing else
SystemContentOwn(messages, lines, at) ==
  /\ Len(messages) = Len(at)
  /\ \A k \in 1..Len(at) :
       messages[k].isSystemMessage =>
         messages[k].content = systemMessageRegex(normalizeLine(lines[at[k]])).content
\* the line is not blank and matches neither grammar
LooseLine(raw) == ~IsBlank(raw) /\ ~GrammarLine(raw)
\* the line starts a system message
SystemStart(lines, i) ==
  /\ ~NoticeLine(lines, i)
  /\ ~messageRegex(normalizeLine(lines[i])).ok
  /\ systemMessageRegex(normalizeLine(lines[i])).ok

\* C11: a line that matches neither grammar and follows a system message is
\* not appended to it: the content of a system message is the remainder of
\* its own line, whatever lines follow
C11_SystemMessageNeverContinued ==
  parsed.done => SystemContentOwn(parsed.chat.messages, transcript, StartingLines(transcript))

\* a parsed transcript in which a system line is followed by a line that
\* matches neither grammar
C11_Witness ==
  /\ parsed.done
  /\ \E i \in 1..(Len(transcript) - 1) : SystemStart(transcript, i) /\ LooseLine(transcript[i + 1])
  /\ \E k \in 1..Len(parsed.chat.messages) : parsed.chat.messages[k].isSystemMessage

\* the line, as the parser appends it, is one of the lines of the content
\* after the first
FoldedInto(content, line) ==
  \E p \in 1..Len(content) :
    /\ content[p] = NL
    /\ p + Len(line) <= Len(content)
    /\ SubSeq(content, p + 1, p + Len(line)) = line
    /\ (p + Len(line) = Len(content) \/ content[p + Len(line) + 1] = NL)
\* the line at index i started a message or was folded into the message
\* started by the nearest starting line above it
AttachedLine(messages, lines, at, i) ==
  \/ \E k \in 1..Len(at) : at[k] = i
  \/ \E k \in 1..Len(at) :
       /\ at[k] < i
       /\ (k = Len(at) \/ at[k + 1] > i)
       /\ FoldedInto(messages[k].content, normalizeLine(lines[i]))
AllAttached(messages, lines, at) ==
  /\ Len(messages) = Len(at)
  /\ \A i \in 1..Len(lines) :
       (~IsBlank(lines[i]) /\ ~NoticeLine(lines, i)) => AttachedLine(messages, lines, at, i)

\* C12: every non-empty line of the transcript, other than an encryption
\* notice on the first line, starts a message of the output or is folded
\* into the content of one
C12_EveryLineAttached ==
  parsed.done => AllAttached(parsed.chat.messages, transcript, StartingLines(transcript))

\* a line that matches neither grammar while no user message is open: it
\* comes before every starting line or after one that starts a system message
Orphan(lines, at, i) ==
  /\ LooseLine(lines[i])
  /\ \/ \A k \in 1..Len(at) : at[k] > i
     \/ \E k \in 1..Len(at) :
          at[k] < i /\ (k = Len(at) \/ at[k + 1] > i) /\ SystemStart(lines, at[k])
\* the transcript with its first line emptied
WithoutFirst(lines) == << <<>> >> \o Tail(lines)
\* a line below the first that carries the notice is treated like any other
\* line: it starts a message when it matches a grammar, it is folded into the
\* open user message when there is one
LaterNoticeKept(messages, lines, at) ==
  /\ Len(messages) = Len(at)
  /\ \A i \in 2..Len(lines) :
       (encryptionNoticeRegex(lines[i]) /\ ~IsBlank(lines[i]) /\ ~Orphan(lines, at, i)) =>
         /\ AttachedLine(messages, lines, at, i)
         /\ GrammarLine(lines[i]) =>
              \E k \in 1..Len(at) : at[k] = i /\ MadeFrom(messages[k], lines[i])

SendersOf(lines) ==
  {messageRegex(normalizeLine(lines[i])).sender :
     i \in {j \in 1..Len(lines) : ~IsBlank(lines[j]) /\ ~NoticeLine(lines, j)
                                   /\ messageRegex(normalizeLine(lines[j])).ok}}
NonSelfSendersOf(lines) == {s \in SendersOf(lines) : ~isYou(s)}

\* C14: isGroup is true exactly when more than one distinct sender other than
\* the exporting user appears, whatever the order of the lines
C14_GroupIffTwoOtherSenders ==
  parsed.done => (parsed.chat.isGroup <=> Cardinality(NonSelfSendersOf(transcript)) > 1)

(***************************************************************************)
(* The parser on transcripts long enough for the sender statistics: up to  *)
(* MaxSenderLines lines of three named senders, the exporting user, a      *)
(* sender whose name is blank, and a system line                           *)
(***************************************************************************)
MaxSenderLines == 5
\* "12/5/23, 9:41 AM - : hi": the sender group matches one blank, and
\* sender.trim() is the empty string
BlankSenderLine == <<T0941, DASH, COLON, W("hi")>>
SenderLinePool ==
  { UserLine(T0941, "Ali", <<W("Hello")>>),
    UserLine(T1000, "Omar", <<W("ok")>>),
    UserLine(T1400, "Sara", <<W("late")>>),
    UserLine(T1000, "You", <<W("ok")>>),
    SystemLine(T1541, <<W("Sara joined")>>),
    BlankSenderLine }
SenderTranscripts == SeqsUpTo(SenderLinePool, MaxSenderLines) \ {<<>>}

InitIdentify ==
  /\ PipelineIdle /\ CorrelatorIdle
  /\ currentTime = NewDate(2023, 11, 5, 13, 0, 0)
  /\ transcript \in SenderTranscripts
  /\ parsed = [done |-> FALSE]

SpecIdentify == InitIdentify /\ [][NextParse]_vars

NoSelfSender(lines) == \A s \in SendersOf(lines) : ~isYou(s)

\* C15: with no sender recognised as the exporting user and exactly one
\* distinct sender, every user message is from me and no system message is
C15_SingleSenderIsMe ==
  (parsed.done /\ NoSelfSender(transcript) /\ Cardinality(SendersOf(transcript)) = 1) =>
    \A k \in 1..Len(parsed.chat.messages) :
      parsed.chat.messages[k].isFromMe = ~parsed.chat.messages[k].isSystemMessage

\* how many lines of the transcript start a user message of this sender
SenderLines(lines, sender) ==
  Cardinality({j \in 1..Len(lines) : /\ ~IsBlank(lines[j]) /\ ~NoticeLine(lines, j)
                                      /\ messageRegex(normalizeLine(lines[j])).ok
                                      /\ messageRegex(normalizeLine(lines[j])).sender = sender})
UserMessages(messages) == {k \in 1..Len(messages) : ~messages[k].isSystemMessage}
\* the sender's share of the user messages is strictly above 60 percent
AboveSixty(lines, messages, sender) ==
  SenderLines(lines, sender) * 100 > 60 * Cardinality(UserMessages(messages))
TwoUnknownSenders(lines) == NoSelfSender(lines) /\ Cardinality(SendersOf(lines)) = 2

\* C16: with no sender recognised as the exporting user and exactly two
\* distinct senders, a user message is from me exactly when its sender's share
\* of the user messages is strictly above 60 percent; system messages are not
C16_TopSenderAboveSixtyIsMe ==
  (parsed.done /\ TwoUnknownSenders(transcript)) =>
    \A k \in 1..Len(parsed.chat.messages) :
      parsed.chat.messages[k].isFromMe <=>
        /\ ~parsed.chat.messages[k].isSystemMessage
        /\ AboveSixty(transcript, parsed.chat.messages, parsed.chat.messages[k].sender)

\* the message is from me exactly when its line is a user line whose sender
\* is one of the self identifiers
FromMeIffSelfLine(messages, lines, at) ==
  /\ Len(messages) = Len(at)
  /\ \A k \in 1..Len(at) :
       messages[k].isFromMe <=>
         /\ messageRegex(normalizeLine(lines[at[k]])).ok
         /\ isYou(messageRegex(normalizeLine(lines[at[k]])).sender)

\* C17: with three or more distinct senders, or with some line of the
\* exporting user, nothing is relabelled: the messages from me are exactly
\* those whose sender was a self identifier
C17_NoRelabelWithSelfOrManySenders ==
  (parsed.done /\ (Cardinality(SendersOf(transcript)) >= 3 \/ ~NoSelfSender(transcript))) =>
    FromMeIffSelfLine(parsed.chat.messages, transcript, StartingLines(transcript))

\* a parsed transcript of three senders, none of them the exporting user,
\* one of them with more lines than the others
C17_Witness ==
  /\ parsed.done
  /\ NoSelfSender(transcript)
  /\ Cardinality(SendersOf(transcript)) = 3
  /\ \E s \in SendersOf(transcript) : SenderLines(transcript, s) = 3
  /\ Len(parsed.chat.messages) = 5
  /\ \A k \in 1..5 : ~parsed.chat.messages[k].isFromMe

\* no message of the transcript carries the URL of the media file
Unclaimed(messages, media) ==
  \A k \in 1..Len(messages) : messages[k].mediaUrl # MediaUrl("u1", media.filename)
\* the file is of the message's calendar day and extension bucket, and is at
\* most 24 hours away from it
WithinDayCandidate(media, message) ==
  /\ getDateKey(media.timestamp) = getDateKey(message.timestamp)
  /\ mediaTypeMatches(message.mediaType, media.type)
  /\ TimeDiff(media, message) <= DayMs

\* C18: a media message is given a file whenever some file no message has
\* claimed is of its calendar day and extension bucket and at most 24 hours
\* away from it
C18_FuzzyAssignsWithinDay ==
  mapped.done =>
    \A c \in 1..Len(mapped.chats) :
      \A k \in 1..Len(mapped.chats[c].messages) :
        ( /\ mapped.chats[c].messages[k].mediaType \notin {Null, "link"}
          /\ \E f \in 1..Len(pool) :
               /\ Unclaimed(mapped.chats[c].messages, pool[f])
               /\ WithinDayCandidate(pool[f], mapped.chats[c].messages[k]) )
        => Linked(mapped.chats[c].messages[k])

(***************************************************************************)
(* The parser on the stamps: transcripts of two user lines of 5 December   *)
(* 2023 whose hours and meridiems vary                                     *)
(***************************************************************************)
\* largest hour written in a stamp
MaxHour == 23
Meridiems == {"AM", "PM", "AR_SAD", "AR_MIM", ""}
StampLine(hour, meridiem) == UserLine(TS(12, 5, 23, hour, 30, meridiem), "Ali", <<W("Hello")>>)
StampTranscripts ==
  {<<StampLine(h1, m1), StampLine(h2, m2)>> :
     h1 \in 0..MaxHour, m1 \in Meridiems, h2 \in 0..MaxHour, m2 \in Meridiems}

InitStamp ==
  /\ PipelineIdle /\ CorrelatorIdle
  /\ currentTime = NewDate(2023, 11, 5, 13, 0, 0)
  /\ transcript \in StampTranscripts
  /\ parsed = [done |-> FALSE]

SpecStamp == InitStamp /\ [][NextParse]_vars

\* the stamp of a line of a stamp transcript: its hour and its meridiem
HourOf(line) == line[1].n[4]
MeridiemOf(line) == line[1].s
IsPM(meridiem) == meridiem \in {"PM", "AR_MIM"}
IsAM(meridiem) == meridiem \in {"AM", "AR_SAD"}
\* the instant of 5 December 2023 at that hour and 30 minutes
AtHour(hour) == NewDate(2023, 11, 5, hour, 30, 0)
\* the 24-hour value of an hour written with a meridiem, or with none
ClockHour(hour, meridiem) ==
  IF IsPM(meridiem) THEN (IF hour < 12 THEN hour + 12 ELSE hour)
  ELSE IF IsAM(meridiem) THEN (IF hour = 12 THEN 0 ELSE hour)
  ELSE hour
\* the cases of the conversion: PM below 12, PM at 12, AM at 12, no meridiem
ConversionCase(hour, meridiem) ==
  \/ IsPM(meridiem) /\ hour <= 12
  \/ IsAM(meridiem) /\ hour = 12
  \/ meridiem = ""
TwelveHour(line) == HourOf(line) \in 1..12 /\ MeridiemOf(line) # ""

NamesFile(message, media) ==
  message.mediaName # NullT /\ Lower(message.mediaName) = FilenameKey(media)
\* a message before the k-th one of the transcript was given a file of the
\* same lower-cased name as this one
ConsumedBefore(messages, k, media) ==
  \E q \in 1..(k - 1) :
    Linked(messages[q]) /\ Lower(<<messages[q].mediaUrl[3]>>) = FilenameKey(media)
\* the URLs of the files of that lower-cased name
UrlsOfName(mediaFiles, media) ==
  {MediaUrl("u1", mediaFiles[g].filename) :
     g \in {h \in 1..Len(mediaFiles) : FilenameKey(mediaFiles[h]) = FilenameKey(media)}}

\* C20: a message whose mediaName is, ignoring case, the name of a media file
\* that no earlier message of the transcript was given is given that file,
\* whatever the file's bucket, day and distance in time
C20_ExactNameWins ==
  mapped.done =>
    \A c \in 1..Len(chats) :
      \A k \in 1..Len(chats[c].messages) :
        \A f \in 1..Len(pool) :
          ( /\ NamesFile(chats[c].messages[k], pool[f])
            /\ ~ConsumedBefore(mapped.chats[c].messages, k, pool[f]) )
          => mapped.chats[c].messages[k].mediaUrl \in UrlsOfName(pool, pool[f])

\* a correlated transcript whose image message names song.mp3, a file of
\* another bucket and another day, and was given it
C20_Witness ==
  /\ mapped.done
  /\ \E c \in 1..Len(chats) :
       \E f \in 1..Len(pool) :
         /\ pool[f].filename = SONG
         /\ chats[c].messages[1].mediaType = "image"
         /\ NamesFile(chats[c].messages[1], pool[f])
         /\ ~mediaTypeMatches(chats[c].messages[1].mediaType, pool[f].type)
         /\ getDateKey(pool[f].timestamp) # getDateKey(chats[c].messages[1].timestamp)
         /\ mapped.chats[c].messages[1].mediaUrl = MediaUrl("u1", SONG)

\* the candidates of the fuzzy step for a message: the files of its calendar
\* day and extension bucket that are less than 24 hours away from it
FuzzyCandidates(mediaFiles, message) ==
  {f \in 1..Len(mediaFiles) :
     /\ getDateKey(mediaFiles[f].timestamp) = getDateKey(message.timestamp)
     /\ mediaTypeMatches(message.mediaType, mediaFiles[f].type)
     /\ TimeDiff(mediaFiles[f], message) < DayMs}
\* the candidate nearest to the message, the first of the pool among equals
NearestFirst(mediaFiles, message) ==
  CHOOSE f \in FuzzyCandidates(mediaFiles, message) :
    \A g \in FuzzyCandidates(mediaFiles, message) :
      \/ TimeDiff(mediaFiles[f], message) < TimeDiff(mediaFiles[g], message)
      \/ TimeDiff(mediaFiles[f], message) = TimeDiff(mediaFiles[g], message) /\ f <= g
\* the k-th message goes through the fuzzy step with every file unclaimed:
\* it is a media message, no file bears its name, and no message before it
\* in the transcript was given a file
FuzzyOnFreshPool(messages, after, k, mediaFiles) ==
  /\ messages[k].mediaType \notin {Null, "link"}
  /\ \A f \in 1..Len(mediaFiles) : ~NamesFile(messages[k], mediaFiles[f])
  /\ \A q \in 1..(k - 1) : ~Linked(after[q])

\* C21: the fuzzy step gives the message, among the files of its day and
\* bucket less than 24 hours away, the one nearest in time, and the first of
\* the pool among those equally near
C21_NearestCandidateFirstOnTies ==
  mapped.done =>
    \A c \in 1..Len(chats) :
      \A k \in 1..Len(chats[c].messages) :
        ( /\ FuzzyOnFreshPool(chats[c].messages, mapped.chats[c].messages, k, pool)
          /\ FuzzyCandidates(pool, chats[c].messages[k]) # {} )
        => mapped.chats[c].messages[k].mediaUrl =
             MediaUrl("u1", pool[NearestFirst(pool, chats[c].messages[k])].filename)

(***************************************************************************)
(* Further properties of the ingestion pipeline                            *)
(***************************************************************************)
IsMediaEntry(entry) == ~IsSkipped(entry) /\ ~IsTranscript(entry)
\* the job has a destination stream open: a file it has not finished writing
\* while it awaits the pipeline
WritingPaths(j) ==
  {p \in Paths : job[j].pc = "pipe" /\ disk[p].state = "partial" /\ disk[p].by = j}
\* one step of a job keeps the extraction sequential
SequentialStep(j) ==
  /\ job'[j].entryIdx # job[j].entryIdx =>
       /\ job'[j].entryIdx = job[j].entryIdx + 1
       /\ job[j].entryIdx < Len(archive[j])
       /\ IsMediaEntry(archive[j][job[j].entryIdx + 1]) =>
            /\ job[j].pc = "pipe"
            /\ disk'[DestPath(userId[j], archive[j][job[j].entryIdx + 1].base)].state = "full"
  /\ (job'[j].pc = "pipe" /\ job[j].pc # "pipe") =>
       /\ job[j].pc = "scan"
       /\ \A p \in Paths : ~(disk[p].state = "partial" /\ disk[p].by = j)
  /\ Cardinality(WritingPaths(j)) <= 1

\* C22: a job moves to the next archive entry only once the current one is
\* done: the entry index advances by one, past a media entry only when its
\* pipeline has settled and its file is written, and a destination stream is
\* opened only while no other file of the job is being written
C22_ExtractionIsSequential == [][\A j \in Jobs : SequentialStep(j)]_vars

\* the second media entry of an archive is being written after the first
\* one was written in full
C22_Witness ==
  /\ job["j1"].pc = "pipe" /\ job["j1"].entryIdx = 1
  /\ IsMediaEntry(archive["j1"][1]) /\ IsMediaEntry(archive["j1"][2])
  /\ archive["j1"][1].base # archive["j1"][2].base
  /\ disk[DestPath(userId["j1"], archive["j1"][1].base)].state = "full"
  /\ disk[DestPath(userId["j1"], archive["j1"][2].base)].state = "partial"

\* the instant of a stamp a/b/y read day first: a the day, b the month
DayFirst(stamp) ==
  NewDate(IF stamp.n[3] < 100 THEN stamp.n[3] + (IF stamp.n[3] < 50 THEN 2000 ELSE 1900)
          ELSE stamp.n[3],
          stamp.n[2] - 1, stamp.n[1], ClockHour(stamp.n[4], stamp.s), stamp.n[5], 0)

\* C23: the date a/b/y of a stamp is read day first, a being the day of the
\* month and b the month, with a meridiem and without
C23_DateReadDayFirst ==
  parsed.done =>
    \A k \in 1..Len(parsed.chat.messages) :
      parsed.chat.messages[k].timestamp = DayFirst(transcript[k][1])

(***************************************************************************)
(* The parser on the contents: transcripts of one user line whose content  *)
(* is made of up to MaxContent pieces                                      *)
(***************************************************************************)
MaxContent == 3
CLIP == GF("clip", "mp4")
REPORT == GF("report", "pdf")
URL == W("https://x.io")
ContentPool ==
  { W("hello"), URL, W("(file attached)"), W("<attached:"), W(">"),
    IMG1, CLIP, SONG, REPORT, W("<Media omitted>"), W("<AR_excluded AR_media>") }
Contents == SeqsUpTo(ContentPool, MaxContent) \ {<<>>}
ContentTranscripts == {<<UserLine(T0941, "Ali", content)>> : content \in Contents}

InitClassify ==
  /\ PipelineIdle /\ CorrelatorIdle
  /\ currentTime = NewDate(2023, 11, 5, 13, 0, 0)
  /\ transcript \in ContentTranscripts
  /\ parsed = [done |-> FALSE]

SpecClassify == InitClassify /\ [][NextParse]_vars

\* the content has a media indicator / a bare or embedded file name / a URL
Indicated(content) == hasMediaIndicator(Lower(content), TrimText(content))
NamedIn(content) == extractedFilename(TrimText(content)) # <<>>
UrlsIn(content) == {i \in 1..Len(content) : IsUrl(content[i])}

\* C24: a message is of kind link only when its content has no media
\* indicator, no file name was extracted from it and it holds a URL; its
\* mediaUrl is then that URL and its mediaName is null
C24_LinkOnlyWithoutIndicatorAndName ==
  parsed.done =>
    \A k \in 1..Len(parsed.chat.messages) :
      parsed.chat.messages[k].mediaType = "link" =>
        /\ ~Indicated(parsed.chat.messages[k].content)
        /\ ~NamedIn(parsed.chat.messages[k].content)
        /\ UrlsIn(parsed.chat.messages[k].content) # {}
        /\ parsed.chat.messages[k].mediaUrl =
             <<parsed.chat.messages[k].content[MinOf(UrlsIn(parsed.chat.messages[k].content))]>>
        /\ parsed.chat.messages[k].mediaName = NullT

\* C25: after classification of a content with a media indicator, mediaName
\* is the extracted file name when a bare or embedded one was found, and it
\* is null when no file name was extracted
C25_NameIsExtractedFilenameOrNull ==
  parsed.done =>
    \A k \in 1..Len(parsed.chat.messages) :
      Indicated(parsed.chat.messages[k].content) =>
        parsed.chat.messages[k].mediaName =
          IF NamedIn(parsed.chat.messages[k].content)
          THEN extractedFilename(TrimText(parsed.chat.messages[k].content))
          ELSE NullT

\* the categories in their fixed order, and the kind each one gives
Categories == <<"image", "video", "audio", "document", "residual", "file">>
KindOfCategory(category) == IF category = "residual" THEN "image" ELSE category
\* the pieces of a content that are a trigger of a category: a phrase of the
\* category, a file name with one of its extensions, a vendor name of its
\* prefix at the start of the content ("ptt" anywhere for audio)
ExtOf(t) == IF t.k = "file" THEN LowerStr(t.x) ELSE ""
PhraseOf(t) == IF t.k = "w" THEN LowerStr(t.s) ELSE ""
VendorAtStart(content, prefixes) ==
  TrimText(content) # <<>> /\ IsVendorName(TrimText(content)[1])
  /\ LowerStr(TrimText(content)[1].s) \in prefixes
ShowsTrigger(content, category) ==
  CASE category = "image" ->
         \/ \E i \in 1..Len(content) :
              \/ PhraseOf(content[i]) = "image omitted" \/ content[i].s = "<AR_excluded AR_image>"
              \/ ExtOf(content[i]) \in {"jpg", "png", "jpeg", "gif", "webp"}
         \/ VendorAtStart(content, {"img"})
    [] category = "video" ->
         \/ \E i \in 1..Len(content) :
              \/ PhraseOf(content[i]) = "video omitted"
              \/ ExtOf(content[i]) \in {"mp4", "mov", "avi", "3gp"}
         \/ VendorAtStart(content, {"vid"})
    [] category = "audio" ->
         \/ \E i \in 1..Len(content) :
              \/ PhraseOf(content[i]) \in {"audio omitted", "voice message"}
              \/ ExtOf(content[i]) \in {"opus", "mp3", "ogg", "m4a"}
              \/ (content[i].k = "file" /\ LowerStr(content[i].s) = "ptt")
         \/ VendorAtStart(content, {"ptt", "aud"})
    [] category = "document" ->
         \/ \E i \in 1..Len(content) : ExtOf(content[i]) \in {"pdf", "doc", "txt", "docx", "xlsx"}
         \/ VendorAtStart(content, {"doc"})
    [] category = "residual" ->
         \E i \in 1..Len(content) : content[i].s \in {"<AR_excluded AR_media>", "<AR_excluded AR_image>"}
    [] OTHER -> TRUE
FirstShown(content) ==
  Categories[MinOf({i \in 1..Len(Categories) : ShowsTrigger(content, Categories[i])})]

C27_ReturnedMeansTerminal ==
  \A j \in Jobs :
    /\ job[j].pc = "returned" => upload[j].status \in Terminal
    /\ (j \in live /\ Finished(j) /\ ~sourceFile[j]) => upload[j].status \in Terminal

\* the messages the job handed to createMessages that carry the URL of a
\* media file, /media/<userId>/<filename>
LinksOf(messages) == {messages[k].mediaUrl : k \in {q \in 1..Len(messages) : Linked(messages[q])}}
StoredLinks(j) ==
  UNION {LinksOf(dbMessages[b].messages) : b \in {q \in 1..Len(dbMessages) : dbMessages[q].job = j}}

\* C28: once a job has ended, every stored message of the job that carries
\* the URL of a media file refers to a file that is in the user's media
\* directory
C28_StoredLinksPointAtFiles ==
  \A j \in Jobs :
    Finished(j) =>
      \A url \in StoredLinks(j) : disk[DestPath(userId[j], url[3])].state # "absent"

\* the media entries of an archive, in order
MediaEntries(entries) == SelectSeq(entries, IsMediaEntry)
\* the a-th and the b-th written media entry of the job are kept apart
KeptApart(j, a, b) ==
  /\ job[j].extractedMediaPaths[a] # job[j].extractedMediaPaths[b]
  /\ job[j].mediaFiles[a].filename # job[j].mediaFiles[b].filename

\* C29: distinct media entries of one archive are written to distinct paths
\* and give descriptors of distinct names: none overwrites the file of an
\* earlier one, and the ledger holds each written path once
C29_DistinctEntriesDistinctFiles ==
  \A j \in Jobs :
    /\ Len(job[j].extractedMediaPaths) = Len(job[j].mediaFiles)
    /\ Len(job[j].mediaFiles) <= Len(MediaEntries(archive[j]))
    /\ \A a \in 1..Len(job[j].mediaFiles) :
         \A b \in 1..Len(job[j].mediaFiles) :
           (a < b /\ MediaEntries(archive[j])[a] # MediaEntries(archive[j])[b]) => KeptApart(j, a, b)

(***************************************************************************)
(* The parser on messages of several lines: a user line followed by up to  *)
(* MaxContinuation lines that match neither grammar                        *)
(***************************************************************************)
MaxContinuation == 2
\* most pieces of the content of the user line
MaxFirst == 2
PiecePool == {W("hello"), URL, W("(file attached)"), IMG1, CLIP}
FirstContents == SeqsUpTo(PiecePool, MaxFirst) \ {<<>>}
ContinuedTranscripts ==
  {<<UserLine(T0941, "Ali", content)>> \o [i \in 1..Len(more) |-> <<more[i]>>] :
     content \in FirstContents, more \in SeqsUpTo(PiecePool, MaxContinuation)}

InitContinue ==
  /\ PipelineIdle /\ CorrelatorIdle
  /\ currentTime = NewDate(2023, 11, 5, 13, 0, 0)
  /\ transcript \in ContinuedTranscripts
  /\ parsed = [done |-> FALSE]

SpecContinue == InitContinue /\ [][NextParse]_vars

\* C30: in every message returned by parseExport, mediaUrl is set only if
\* mediaType is link, also when the classifier ran again after continuation
\* lines were appended
C30_UrlOnlyOnLinks ==
  parsed.done =>
    \A k \in 1..Len(parsed.chat.messages) :
      parsed.chat.messages[k].mediaUrl # NullT => parsed.chat.messages[k].mediaType = "link"
====
